---- MODULE Spec2Model ----
(***************************************************************************)
(* signatur: a browser application that stamps signature / initial images  *)
(* on the pages of an uploaded PDF and exports the result.                 *)
(*                                                                         *)
(* The model follows src/src/app.tsx (App, Canvas, draw), the hook         *)
(* useParsePdf and the IndexedDB helpers of src/unnamed/part_000 (lib) and *)
(* ImageSelectionSection / StarterModal of src/unnamed/part_002.           *)
(*                                                                         *)
(* React: a state update made in a browser event handler (click, mouseup,  *)
(* change) is rendered, and the effects of that render are run, before the *)
(* next event is handled, so a handler together with its re-render is one  *)
(* action.  A state update made inside an effect (App's effect on          *)
(* parsedPdf) is rendered by a later task: it is a separate action         *)
(* (FlushReset), and handlers that run before it still close over the      *)
(* placement list of the last render.                                      *)
(* Effects run child first: the Canvas effects of a commit run before the  *)
(* effect of App.  Under React.StrictMode in a development build the       *)
(* effects of newly mounted components are run a second time after all the *)
(* effects of the commit; in a production build they are not.              *)
(***************************************************************************)
EXTENDS Integers, Sequences, FiniteSets, TLC

\* ---------------------------------------------------------------- bounds
MaxPlacements == 3      \* longest placement list explored
MaxUploads == 2         \* accepted rasterization requests explored
MaxJobs == 1            \* stamp-image selections in flight at once

\* ------------------------------------------------------------ the inputs
\* The PDF files the user may choose: page count, and whether pdf.js parses it.
PdfFiles == {"a.pdf", "b.pdf", "bad.pdf"}
NumPages(f) == CASE f = "a.pdf" -> 1 [] f = "b.pdf" -> 2 [] OTHER -> 0

\* The viewport of page k of file f at scale 150/72 (canvas.width, canvas.height).
PageWidth(f, k) == IF f = "b.pdf" /\ k = 2 THEN 1754 ELSE 1240
PageHeight(f, k) == IF f = "b.pdf" /\ k = 2 THEN 1240 ELSE 1754

\* The PNG selections offered for each variant (the FileList, in order); the
\* empty FileList is what the input has after a dismissed file dialog.
Variants == {"signatures", "initials"}
Choices(name) ==
  IF name = "signatures" THEN {<<>>, <<"s1">>, <<"s1", "s2">>}
  ELSE {<<>>, <<"i1">>}

\* The images a variant's object store holds at page load on a return visit
\* (saved by an earlier visit); none of them is among the Choices.
SavedAtLoad(name) == IF name = "signatures" THEN <<"s0">> ELSE <<"i0">>

\* Pointer positions and slider values explored.
Points == {50}
Heights == {150, 40}

\* ------------------------------------------------------------- constants
InitialSignatureHeight == 150

VARIABLES
  devBuild,             \* development build: StrictMode re-runs mount effects
  isModalOpen, signType, signatureHeight, signatures, initials,
  isParsingPdf, signedLocations, canvasArray, isSavingPdf,
  parsedPdf, renderInProgressRef,
  resetQueued, rebase,  \* the effect's setSignedLocations([]) not yet rendered
  canvasEls,            \* the mounted <canvas> elements, one per page
  raster,               \* rasterizations in flight
  clock,                \* documents published so far (parsedAtStr)
  exports,              \* exports in flight
  isSaveTicked, db, txn, jobs,
  lastOp,               \* history: the last operation, where a claim needs it
  run                   \* history: appends and undos since the list was empty

vars == <<devBuild, isModalOpen, signType, signatureHeight, signatures, initials,
          isParsingPdf, signedLocations, canvasArray, isSavingPdf,
          parsedPdf, renderInProgressRef, resetQueued, rebase, canvasEls,
          raster, clock, exports,
          isSaveTicked, db, txn, jobs, lastOp, run>>

appVars == <<isModalOpen, signType, signatureHeight, signatures, initials,
             isParsingPdf, isSavingPdf>>
storeVars == <<signedLocations, rebase, resetQueued>>
docVars == <<parsedPdf, canvasArray, clock>>
rasterVars == <<raster, renderInProgressRef>>
exportVars == <<exports>>
libVars == <<isSaveTicked, db, txn, jobs>>

\* ------------------------------------------------------------- helpers
NullPdf == [images |-> <<>>, parsedAtStr |-> 0, fileName |-> ""]
NoTxn == [active |-> FALSE, work |-> <<>>]
NoRun == [appends |-> 0, undos |-> 0]
Undefined == 0

\* ------------------------------------------------- faulty alternatives
\* What a faulty implementation of an operator of this module would compute.
\* Each property below that depends on an operator fails when the operator is
\* replaced by its alternative.
SliceOffNothing(s) == s
SliceOffFirst(s) == SubSeq(s, 2, Len(s))
ResetKeepsAll(prev) == prev
EffectKeepsLocations(prev) == prev
StoreNotCleared(entries) == entries
InputNeverDisabled == TRUE
ParsesAnything(f) == TRUE
RerenderPaintsNothing(locs, sigs, inits) == UNCHANGED canvasEls
PreviewLocationCountsAll(index, pt) ==
  [x |-> pt, y |-> pt,
   i |-> Len(signedLocations),
   pageIndex |-> index,
   height |-> signatureHeight,
   type |-> signType,
   atDoc |-> parsedPdf.parsedAtStr]
ExportEnabledWhileSaving == parsedPdf # NullPdf
PromiseAllInSettlingOrder(values, order) ==
  [n \in 1..Len(order) |-> values[order[n]]]
NewLocationOfFirstRender(index, pt) ==
  [x |-> pt, y |-> pt,
   i |-> Len(SelectSeq(signedLocations, LAMBDA l : l.type = signType)),
   pageIndex |-> index,
   height |-> InitialSignatureHeight,
   type |-> "signature",
   atDoc |-> parsedPdf.parsedAtStr]

\* getDocument(arrayBuffer).promise resolves for file f.
Parseable(f) == f # "bad.pdf"

\* The decoded raster of page k of file f.
PageImage(f, k) ==
  [src |-> <<f, k>>, width |-> PageWidth(f, k), height |-> PageHeight(f, k)]

\* s.slice(0, -1)
SliceOffLast(s) == SubSeq(s, 1, Len(s) - 1)

\* All orders shuffle may return for an array.
Shuffles(arr) ==
  { [k \in 1..Len(arr) |-> arr[p[k]]] :
      p \in { q \in [1..Len(arr) -> 1..Len(arr)] :
                \A a, b \in 1..Len(arr) : a # b => q[a] # q[b] } }

\* --------------------------------------------------------------- draw
\* The stamp image draw picks for a placement: signImgArray[i % length].
StampImage(loc, signatureImgArray, initialImgArray) ==
  LET signImgArray == IF loc.type = "signature" THEN signatureImgArray
                      ELSE initialImgArray
  IN  IF Len(signImgArray) = 0 THEN "undefined"
      ELSE signImgArray[(loc.i % Len(signImgArray)) + 1]

\* What draw leaves on the canvas: the base image at the origin, then one
\* stamp per placement, in the order of the list it is given.  Reading
\* signImg.width of an undefined stamp image throws: the loop ends there, and
\* the stamp with img "undefined" stands for the TypeError.
draw(baseImage, signatureImgArray, initialImgArray, locs) ==
  LET all == [k \in 1..Len(locs) |->
                [img |-> StampImage(locs[k], signatureImgArray, initialImgArray),
                 x |-> locs[k].x, y |-> locs[k].y, height |-> locs[k].height]]
      bad == {k \in 1..Len(locs) : all[k].img = "undefined"}
      n == IF bad = {} THEN Len(locs)
           ELSE CHOOSE k \in bad : \A m \in bad : k <= m
  IN  [base |-> baseImage.src, stamps |-> SubSeq(all, 1, n)]

\* signedLocations.filter((s) => s.pageIndex === index)
PageLocations(locs, index) == SelectSeq(locs, LAMBDA s : s.pageIndex = index)

\* signedLocations.filter((l) => l.type === signType).length
CountOfType(locs, type) == Len(SelectSeq(locs, LAMBDA l : l.type = type))

\* The placement signOnPage builds from the values of the current render.  atDoc is history, not a field of the
\* program's record: the document that was current when it was built.
NewLocation(index, pt) ==
  [x |-> pt, y |-> pt,
   i |-> CountOfType(signedLocations, signType),
   pageIndex |-> index,
   height |-> signatureHeight,
   type |-> signType,
   atDoc |-> parsedPdf.parsedAtStr]

\* The preview placement drawOnCanvas builds from extraSignLocation and the
\* values of the current render.
PreviewLocation(index, pt) ==
  [x |-> pt, y |-> pt,
   i |-> CountOfType(signedLocations, signType),
   pageIndex |-> index,
   height |-> signatureHeight,
   type |-> signType,
   atDoc |-> parsedPdf.parsedAtStr]

\* A faulty drawOnCanvas: it does not filter the placements by page.
drawOnCanvasEveryPage(pdf, locs, sigs, inits, index, extra) ==
  draw(pdf.images[index + 1], sigs, inits, locs \o extra)

\* drawOnCanvas(canvas, extraSignLocation?) of page `index` in a render with
\* the given state; extra is <<>> or <<preview>>.
drawOnCanvas(pdf, locs, sigs, inits, index, extra) ==
  draw(pdf.images[index + 1], sigs, inits, PageLocations(locs, index) \o extra)

\* The draw effect of every mounted Canvas after a render with this state.
Repaint(els, pdf, locs, sigs, inits) ==
  [k \in 1..Len(els) |->
     [els[k] EXCEPT !.content = drawOnCanvas(pdf, locs, sigs, inits, k - 1, <<>>)]]

\* A render that keeps the document: every canvas is repainted.
Rerender(locs, sigs, inits) ==
  canvasEls' = Repaint(canvasEls, parsedPdf, locs, sigs, inits)

Pages == 0..(Len(parsedPdf.images) - 1)

\* The draw effect of some Canvas throws in the render of the current state.
\* An error thrown by an effect is not caught by any error boundary: React
\* unmounts the application.
DrawEffectThrows ==
  \E p \in Pages :
    \E j \in 1..Len(PageLocations(signedLocations, p)) :
      StampImage(PageLocations(signedLocations, p)[j], signatures, initials)
        = "undefined"

Mounted == ~DrawEffectThrows

\* ----------------------------------------------------------------- Init
\* A first visit: both object stores are empty, and the runs of the sections'
\* mount effect have found nothing stored and returned (InitReturning is the
\* page load of a return visit).
Init ==
  /\ devBuild \in BOOLEAN
  /\ isModalOpen = TRUE
  /\ signType = "signature"
  /\ signatureHeight = InitialSignatureHeight
  /\ signatures = <<>>
  /\ initials = <<>>
  /\ isParsingPdf = FALSE
  /\ signedLocations = <<>>
  /\ canvasArray = <<>>
  /\ isSavingPdf = FALSE
  /\ parsedPdf = NullPdf
  /\ renderInProgressRef = FALSE
  /\ resetQueued = FALSE
  /\ rebase = <<>>
  /\ canvasEls = <<>>
  /\ raster = {}
  /\ clock = 0
  /\ exports = {}
  /\ isSaveTicked = [n \in Variants |-> TRUE]
  /\ db = [n \in Variants |-> <<>>]
  /\ txn = [n \in Variants |-> NoTxn]
  /\ jobs = {}
  /\ lastOp = "other"
  /\ run = NoRun

\* ------------------------------------------------- the stamp library
\* part_002: ImageSelectionSection, and lib's writeBlobsToIndexedDb.

\* store.clear(): the content of the object store after the clear request.
ClearedStore(entries) == <<>>

\* The jobs started by the file input's onChange (effect = 0); the others
\* are the runs of the sections' mount effect.
UserJobs == {j \in jobs : j.effect = 0}

\* The file input's onChange up to its first await: the job that will save
\* (when the box is ticked) and then decode the chosen files.
SelectFiles(name, files) ==
  /\ isModalOpen
  /\ Cardinality(UserJobs) < MaxJobs
  /\ jobs' = jobs \cup
       {[name |-> name, files |-> files, added |-> 0, effect |-> 0,
         stage |-> IF isSaveTicked[name] THEN "buffers" ELSE "decode"]}
  /\ lastOp' = "other"
  /\ UNCHANGED <<devBuild, appVars, storeVars, docVars, rasterVars, exportVars,
                 canvasEls, isSaveTicked, db, txn, run>>

\* The checkbox "Also save them to my disk".
ToggleSave(name) ==
  /\ isModalOpen
  /\ isSaveTicked' = [isSaveTicked EXCEPT ![name] = ~isSaveTicked[name]]
  /\ lastOp' = "other"
  /\ UNCHANGED <<devBuild, appVars, storeVars, docVars, rasterVars, exportVars,
                 canvasEls, db, txn, jobs, run>>

\* writeBlobsToIndexedDb: the readwrite transaction starts (transactions on
\* one object store run one at a time) and its clear request succeeds.
TxnBegin(j) ==
  /\ j.stage = "buffers"
  /\ ~txn[j.name].active
  /\ txn' = [txn EXCEPT ![j.name] =
               [active |-> TRUE, work |-> ClearedStore(db[j.name])]]
  /\ jobs' = (jobs \ {j}) \cup {[j EXCEPT !.stage = "adding"]}
  /\ lastOp' = "other"
  /\ UNCHANGED <<devBuild, appVars, storeVars, docVars, rasterVars, exportVars,
                 canvasEls, isSaveTicked, db, run>>

\* One store.add(arrayBuffer) succeeds; the requests run in array order.
TxnAdd(j) ==
  /\ j.stage = "adding"
  /\ j.added < Len(j.files)
  /\ txn' = [txn EXCEPT ![j.name].work = Append(@, j.files[j.added + 1])]
  /\ jobs' = (jobs \ {j}) \cup {[j EXCEPT !.added = j.added + 1]}
  /\ lastOp' = "other"
  /\ UNCHANGED <<devBuild, appVars, storeVars, docVars, rasterVars, exportVars,
                 canvasEls, isSaveTicked, db, run>>

\* Promise.all(savePromises) resolves and the transaction commits: the save
\* has completed, and onChange goes on to setImagesFromBlobs.
TxnCommit(j) ==
  /\ j.stage = "adding"
  /\ j.added = Len(j.files)
  /\ db' = [db EXCEPT ![j.name] = txn[j.name].work]
  /\ txn' = [txn EXCEPT ![j.name] = NoTxn]
  /\ jobs' = (jobs \ {j}) \cup {[j EXCEPT !.stage = "decode"]}
  /\ lastOp' = IF db[j.name] # <<>> THEN "replaced" ELSE "saved"
  /\ UNCHANGED <<devBuild, appVars, storeVars, docVars, rasterVars, exportVars,
                 canvasEls, isSaveTicked, run>>

\* A request of the transaction fails: the transaction is rolled back, the
\* promise rejects and onChange ends without setImagesFromBlobs.
TxnAbort(j) ==
  /\ j.stage = "adding"
  /\ txn' = [txn EXCEPT ![j.name] = NoTxn]
  /\ jobs' = jobs \ {j}
  /\ lastOp' = "other"
  /\ UNCHANGED <<devBuild, appVars, storeVars, docVars, rasterVars, exportVars,
                 canvasEls, isSaveTicked, db, run>>

\* The sections' mount effect (loadSavedImages is !canProceed, true at page
\* load): one run per section, two under StrictMode in a development build.
\* Each run awaits getIndexedDbDatabase and readBlobsFromIndexedDb.
StartupLoads ==
  {[name |-> n, files |-> <<>>, added |-> 0, effect |-> e, stage |-> "load"] :
     n \in Variants, e \in 1..(IF devBuild THEN 2 ELSE 1)}

\* A run of the mount effect gets the result of store.getAll() (a readonly
\* transaction waits for a readwrite one on its store): with nothing stored
\* it returns, otherwise it goes on to setImagesFromBlobs(storedBlobs).
\* The effect has no cleanup and checks nothing after its awaits.
SavedImagesRead(j) ==
  /\ j.stage = "load"
  /\ ~txn[j.name].active
  /\ jobs' = IF db[j.name] = <<>> THEN jobs \ {j}
             ELSE (jobs \ {j}) \cup
                    {[j EXCEPT !.files = db[j.name], !.stage = "decode"]}
  /\ lastOp' = "other"
  /\ UNCHANGED <<devBuild, appVars, storeVars, docVars, rasterVars, exportVars,
                 canvasEls, isSaveTicked, db, txn, run>>

\* setImagesFromBlobs: every image has decoded; setter(shuffle(images)).
ImagesDecoded(j, order) ==
  /\ j.stage = "decode"
  /\ order \in Shuffles(j.files)
  /\ signatures' = IF j.name = "signatures" THEN order ELSE signatures
  /\ initials' = IF j.name = "initials" THEN order ELSE initials
  /\ jobs' = jobs \ {j}
  /\ Rerender(signedLocations, signatures', initials')
  /\ lastOp' = "other"
  /\ UNCHANGED <<devBuild, isModalOpen, signType, signatureHeight, isParsingPdf,
                 isSavingPdf, storeVars, docVars, rasterVars, exportVars,
                 isSaveTicked, db, txn, run>>

\* StarterModal: "Let's Go" / overlay click / Esc, allowed when canProceed.
\* The sections unmount with the modal, and their isSaveTicked with them.
CloseModal ==
  /\ isModalOpen
  /\ Len(signatures) # 0
  /\ isModalOpen' = FALSE
  /\ isSaveTicked' = [n \in Variants |-> TRUE]
  /\ Rerender(signedLocations, signatures, initials)
  /\ lastOp' = "other"
  /\ UNCHANGED <<devBuild, signType, signatureHeight, signatures, initials,
                 isParsingPdf, isSavingPdf, storeVars, docVars, rasterVars,
                 exportVars, db, txn, jobs, run>>

\* The cog button; the sections mount again with the box ticked.
OpenModal ==
  /\ ~isModalOpen
  /\ isModalOpen' = TRUE
  /\ Rerender(signedLocations, signatures, initials)
  /\ lastOp' = "other"
  /\ UNCHANGED <<devBuild, signType, signatureHeight, signatures, initials,
                 isParsingPdf, isSavingPdf, storeVars, docVars, rasterVars,
                 exportVars, libVars, run>>

\* ------------------------------------------------------ rasterization
\* part_000: useParsePdf, renderPdfToImgs; app.tsx: the pdf-input.
\* disabled={isParsingPdf}
InputEnabled == ~isParsingPdf

\* if (renderInProgressRef.current) { console.warn(...); return; }
RequestAccepted == ~renderInProgressRef

\* The user picks file f in the pdf-input while it is enabled.  onChange:
\* setIsParsingPdf(true), then pdfInputOnChange, which either returns at its
\* guard (and onChange goes on to setIsParsingPdf(false)) or sets the flag
\* and starts renderPdfToImgs.
PdfInputChange(f) ==
  /\ ~isModalOpen
  /\ InputEnabled
  /\ IF ~RequestAccepted
     THEN /\ isParsingPdf' = FALSE
          /\ UNCHANGED rasterVars
     ELSE /\ clock + Cardinality(raster) < MaxUploads
          /\ renderInProgressRef' = TRUE
          /\ isParsingPdf' = TRUE
          /\ raster' = raster \cup
               {[file |-> f, stage |-> "parsing", done |-> {},
                 values |-> <<>>, order |-> <<>>]}
  /\ Rerender(signedLocations, signatures, initials)
  /\ lastOp' = "other"
  /\ UNCHANGED <<devBuild, isModalOpen, signType, signatureHeight, signatures,
                 initials, isSavingPdf, storeVars, docVars, exportVars, libVars,
                 run>>

\* The user tries to pick file f while the input is disabled: the browser
\* delivers no change event, and no handler runs.
PdfInputDisabled(f) ==
  /\ ~isModalOpen
  /\ ~InputEnabled
  /\ lastOp' = "blocked"
  /\ UNCHANGED <<devBuild, appVars, storeVars, docVars, rasterVars, exportVars,
                 libVars, canvasEls, run>>

\* getDocument(arrayBuffer).promise settles.  A rejection leaves
\* pdfInputOnChange and onChange by the exception: neither flag is cleared.
RasterParsed(r) ==
  /\ r.stage = "parsing"
  /\ IF Parseable(r.file)
     THEN /\ raster' = (raster \ {r}) \cup {[r EXCEPT !.stage = "rendering"]}
          /\ lastOp' = "other"
     ELSE /\ raster' = raster \ {r}
          /\ lastOp' = "rasterFailed"
  /\ UNCHANGED <<devBuild, appVars, storeVars, docVars, renderInProgressRef,
                 exportVars, libVars, canvasEls, run>>

\* The pages of rasterization r whose task (getPage, render, toBlob, decode)
\* has started and not finished: pageNums.map(async ...) starts the task of
\* every page as soon as the document is parsed, Promise.all awaits them.
PagesInFlight(r) ==
  IF r.stage = "rendering" THEN (1..NumPages(r.file)) \ r.done ELSE {}

\* The value the promise of pageNum resolves with: the decoded image of the
\* blob of the canvas that doc.getPage(pageNum) was rendered on.
PageTask(f, pageNum) == PageImage(f, pageNum)

\* Promise.all(imagePromises): the array of the promises' values, each at
\* the index of its promise in imagePromises (the promise of pageNum is at
\* index pageNum - 1), in whatever order the promises settled.
PromiseAll(values, order) == [n \in DOMAIN values |-> values[n]]

\* The task of one page (getPage, render, toBlob, decode) finishes; the tasks
\* of all pages were started together by pageNums.map.  The value is kept
\* under the index of its promise; order records the settling order.
RasterPageDone(r, k) ==
  /\ r.stage = "rendering"
  /\ k \in (1..NumPages(r.file)) \ r.done
  /\ raster' = (raster \ {r}) \cup
       {[r EXCEPT !.done = r.done \cup {k},
                  !.values = [n \in r.done \cup {k} |->
                                IF n = k THEN PageTask(r.file, k)
                                ELSE r.values[n]],
                  !.order = Append(r.order, k)]}
  /\ lastOp' = "other"
  /\ UNCHANGED <<devBuild, appVars, storeVars, docVars, renderInProgressRef,
                 exportVars, libVars, canvasEls, run>>

\* The canvasArray after the effects of the commit that mounts the P Canvas
\* components of a new document: each Canvas registers itself (in the array of
\* the previous document), then App's effect replaces the array by
\* Array.from({ length: P }); StrictMode (development) then runs the Canvas
\* effects again, which registers them in the new array.
CanvasArrayAfterMount(P) ==
  IF devBuild THEN [k \in 1..P |-> k] ELSE [k \in 1..P |-> Undefined]

\* App's effect on parsedPdf: setSignedLocations([]).
EffectSetsLocations(prev) == <<>>

\* Promise.all(imagePromises) resolves: setParsedPdf, the flag is cleared,
\* onChange clears isParsingPdf; the render mounts one Canvas per page (the
\* keys are new), whose effects size and paint them with the placement list
\* of this render; App's effect queues setSignedLocations([]).
RasterPublish(r) ==
  /\ r.stage = "rendering"
  /\ r.done = 1..NumPages(r.file)
  /\ LET P == NumPages(r.file)
         pdf == [images |-> PromiseAll(r.values, r.order),
                 parsedAtStr |-> clock + 1,
                 fileName |-> r.file]
     IN  /\ parsedPdf' = pdf
         /\ clock' = clock + 1
         /\ canvasEls' =
              [k \in 1..P |->
                 [width |-> pdf.images[k].width,
                  height |-> pdf.images[k].height,
                  content |-> drawOnCanvas(pdf, signedLocations, signatures,
                                           initials, k - 1, <<>>)]]
         /\ canvasArray' = CanvasArrayAfterMount(P)
  /\ raster' = raster \ {r}
  /\ renderInProgressRef' = FALSE
  /\ isParsingPdf' = FALSE
  /\ resetQueued' = TRUE
  /\ rebase' = EffectSetsLocations(signedLocations)
  /\ lastOp' = IF \E m, n \in 1..Len(r.order) : m < n /\ r.order[m] > r.order[n]
               THEN "publishedReordered" ELSE "other"
  /\ UNCHANGED <<devBuild, isModalOpen, signType, signatureHeight, signatures,
                 initials, isSavingPdf, signedLocations, exportVars, libVars, run>>

\* The render of the update the effect queued: the placement list becomes
\* [] followed by whatever was appended or undone since it was queued.
FlushReset ==
  /\ resetQueued
  /\ resetQueued' = FALSE
  /\ signedLocations' = rebase
  /\ rebase' = <<>>
  /\ Rerender(signedLocations', signatures, initials)
  /\ run' = IF signedLocations = rebase THEN run ELSE NoRun
  /\ lastOp' = IF Len(signedLocations) > Len(rebase) THEN "discard" ELSE "other"
  /\ UNCHANGED <<devBuild, appVars, docVars, rasterVars, exportVars, libVars>>

\* ----------------------------------------------------- placement store
\* A state update of the placement list made by an event handler: it is
\* rendered at once, and it also follows a queued reset in the update queue.
UpdateLocations(next, nextBase) ==
  /\ signedLocations' = next
  /\ rebase' = IF resetQueued THEN nextBase ELSE rebase
  /\ UNCHANGED resetQueued
  /\ Rerender(next, signatures, initials)

DocLoaded == parsedPdf # NullPdf

\* onMouseUp of the Canvas of page `index`: signOnPage.
MouseUp(index, pt) ==
  /\ ~isModalOpen
  /\ DocLoaded
  /\ index \in Pages
  /\ Len(signedLocations) < MaxPlacements
  /\ UpdateLocations(Append(signedLocations, NewLocation(index, pt)),
                     Append(rebase, NewLocation(index, pt)))
  /\ run' = IF signedLocations = <<>> THEN [appends |-> 1, undos |-> 0]
            ELSE IF run.appends > 0 /\ run.undos = 0
                 THEN [run EXCEPT !.appends = @ + 1]
                 ELSE NoRun
  /\ lastOp' = "other"
  /\ UNCHANGED <<devBuild, appVars, docVars, rasterVars, exportVars, libVars>>

\* The canvas of page q shows a preview: the pointer is over it and has
\* moved since the last render.
ShowsPreview(q) ==
  Len(canvasEls[q + 1].content.stamps) > Len(PageLocations(signedLocations, q))

\* onMouseMove: the page is painted with a preview placement.  The pointer
\* is over one canvas at a time: it reaches this one after leaving the other
\* (onMouseLeave).
MouseMove(index, pt) ==
  /\ ~isModalOpen
  /\ DocLoaded
  /\ index \in Pages
  /\ \A q \in Pages \ {index} : ~ShowsPreview(q)
  /\ canvasEls' = [canvasEls EXCEPT ![index + 1].content =
       drawOnCanvas(parsedPdf, signedLocations, signatures, initials, index,
                    <<PreviewLocation(index, pt)>>)]
  /\ lastOp' = "other"
  /\ UNCHANGED <<devBuild, appVars, storeVars, docVars, rasterVars, exportVars,
                 libVars, run>>

\* onMouseLeave: the page is painted without preview.
MouseLeave(index) ==
  /\ ~isModalOpen
  /\ DocLoaded
  /\ index \in Pages
  /\ canvasEls' = [canvasEls EXCEPT ![index + 1].content =
       drawOnCanvas(parsedPdf, signedLocations, signatures, initials, index, <<>>)]
  /\ lastOp' = "other"
  /\ UNCHANGED <<devBuild, appVars, storeVars, docVars, rasterVars, exportVars,
                 libVars, run>>

\* disabled={parsedPdf === null || signedLocations.length === 0}
UndoEnabled == DocLoaded /\ Len(signedLocations) # 0

\* The undo button: setSignedLocations((s) => s.slice(0, -1)).
Undo ==
  /\ ~isModalOpen
  /\ UndoEnabled
  /\ UpdateLocations(SliceOffLast(signedLocations), SliceOffLast(rebase))
  /\ run' = IF run.appends > 0 THEN [run EXCEPT !.undos = @ + 1] ELSE NoRun
  /\ lastOp' = "other"
  /\ UNCHANGED <<devBuild, appVars, docVars, rasterVars, exportVars, libVars>>

\* The reset button's new value: setSignedLocations([]).
ResetValue(prev) == <<>>

Reset ==
  /\ ~isModalOpen
  /\ UndoEnabled
  /\ UpdateLocations(ResetValue(signedLocations), ResetValue(rebase))
  /\ run' = NoRun
  /\ lastOp' = "reset"
  /\ UNCHANGED <<devBuild, appVars, docVars, rasterVars, exportVars, libVars>>

\* The Sign / Initial buttons (Initial is disabled while initials is empty).
SetSignType(t) ==
  /\ ~isModalOpen
  /\ t # signType
  /\ t = "initial" => Len(initials) # 0
  /\ signType' = t
  /\ Rerender(signedLocations, signatures, initials)
  /\ lastOp' = "other"
  /\ UNCHANGED <<devBuild, isModalOpen, signatureHeight, signatures, initials,
                 isParsingPdf, isSavingPdf, storeVars, docVars, rasterVars,
                 exportVars, libVars, run>>

\* The size slider.
SetSignatureHeight(h) ==
  /\ ~isModalOpen
  /\ h # signatureHeight
  /\ signatureHeight' = h
  /\ Rerender(signedLocations, signatures, initials)
  /\ lastOp' = "other"
  /\ UNCHANGED <<devBuild, isModalOpen, signType, signatures, initials,
                 isParsingPdf, isSavingPdf, storeVars, docVars, rasterVars,
                 exportVars, libVars, run>>

\* -------------------------------------------------------------- export
\* disabled={parsedPdf === null || isSavingPdf}
ExportEnabled == DocLoaded /\ ~isSavingPdf

\* fileName.replace(/\.pdf/i, '') + '_signed.pdf'
SignedName(f) ==
  CASE f = "a.pdf" -> "a_signed.pdf"
    [] f = "b.pdf" -> "b_signed.pdf"
    [] OTHER -> "_signed.pdf"

\* The export button: setIsSavingPdf(true); setTimeout(..., 0).
ExportClick ==
  /\ ~isModalOpen
  /\ ExportEnabled
  /\ isSavingPdf' = TRUE
  /\ exports' = exports \cup
       {[stage |-> "timer", pages |-> <<>>,
         name |-> SignedName(parsedPdf.fileName)]}
  /\ Rerender(signedLocations, signatures, initials)
  /\ lastOp' = "other"
  /\ UNCHANGED <<devBuild, isModalOpen, signType, signatureHeight, signatures,
                 initials, isParsingPdf, storeVars, docVars, rasterVars,
                 libVars, run>>

\* The pages the loop over canvasArray.current adds after deletePage(1):
\* addPage([canvas.width, canvas.height]) and addImage(canvas, ...).
ExportPages ==
  [k \in 1..Len(canvasArray) |->
     [width |-> canvasEls[canvasArray[k]].width,
      height |-> canvasEls[canvasArray[k]].height,
      image |-> canvasEls[canvasArray[k]].content]]

\* The timer callback up to `await pdf.save`.  canvas.width of an undefined
\* entry throws a TypeError: the callback ends there, setIsSavingPdf(false)
\* is never reached and nothing is saved.
ExportRun(e) ==
  /\ e.stage = "timer"
  /\ IF \E k \in 1..Len(canvasArray) : canvasArray[k] = Undefined
     THEN /\ exports' = exports \ {e}
          /\ lastOp' = "exportThrew"
     ELSE /\ exports' = (exports \ {e}) \cup
               {[e EXCEPT !.stage = "saving", !.pages = ExportPages]}
          /\ lastOp' = "other"
  /\ UNCHANGED <<devBuild, appVars, storeVars, docVars, rasterVars,
                 libVars, canvasEls, run>>

\* pdf.save resolves: the document built by ExportRun has been downloaded
\* under e.name; setIsSavingPdf(false).
ExportSaved(e) ==
  /\ e.stage = "saving"
  /\ exports' = exports \ {e}
  /\ isSavingPdf' = FALSE
  /\ Rerender(signedLocations, signatures, initials)
  /\ lastOp' = "exported"
  /\ UNCHANGED <<devBuild, isModalOpen, signType, signatureHeight, signatures,
                 initials, isParsingPdf, storeVars, docVars, rasterVars,
                 libVars, run>>

\* pdf.save rejects (a call of the PDF library raises): the callback ends at
\* the await, setIsSavingPdf(false) is never reached and nothing is saved.
ExportSaveFails(e) ==
  /\ e.stage = "saving"
  /\ exports' = exports \ {e}
  /\ lastOp' = "exportThrew"
  /\ UNCHANGED <<devBuild, appVars, storeVars, docVars, rasterVars,
                 libVars, canvasEls, run>>

\* ---------------------------------------------------------------- Next
LibraryStep ==
  \/ \E n \in Variants : \E files \in Choices(n) : SelectFiles(n, files)
  \/ \E n \in Variants : ToggleSave(n)
  \/ \E j \in jobs : TxnBegin(j)
  \/ \E j \in jobs : TxnAdd(j)
  \/ \E j \in jobs : TxnCommit(j)
  \/ \E j \in jobs : TxnAbort(j)
  \/ \E j \in jobs : \E order \in Shuffles(j.files) : ImagesDecoded(j, order)
  \/ CloseModal
  \/ OpenModal

\* The runs of the sections' mount effect.
LoadStep == \E j \in jobs : SavedImagesRead(j)

\* The user picks one of `files` in the enabled pdf-input.
ChooseStep(files) == \E f \in files : PdfInputChange(f)

\* The user tries the disabled pdf-input.
AttemptStep == \E f \in PdfFiles : PdfInputDisabled(f)

RasterStep ==
  \/ \E r \in raster : RasterParsed(r)
  \/ \E r \in raster : \E k \in 1..NumPages(r.file) : RasterPageDone(r, k)
  \/ \E r \in raster : RasterPublish(r)
  \/ FlushReset

AppendStep == \E index \in Pages : \E pt \in Points : MouseUp(index, pt)

StoreStep == AppendStep \/ Undo \/ Reset

TypeStep == \E t \in {"signature", "initial"} : SetSignType(t)

SizeStep == \E h \in Heights : SetSignatureHeight(h)

PointerStep ==
  \/ \E index \in Pages : \E pt \in Points : MouseMove(index, pt)
  \/ \E index \in Pages : MouseLeave(index)

ExportStep ==
  \/ ExportClick
  \/ \E e \in exports : ExportRun(e)
  \/ \E e \in exports : ExportSaved(e)
  \/ \E e \in exports : ExportSaveFails(e)

\* The steps the timer and the PDF library take on their own.
ExportProgress ==
  \E e \in exports : ExportRun(e) \/ ExportSaved(e) \/ ExportSaveFails(e)

\* The whole application, from page load, for as long as it is mounted.
Next ==
  /\ Mounted
  /\ \/ LibraryStep
     \/ ChooseStep(PdfFiles) \/ AttemptStep \/ RasterStep
     \/ StoreStep \/ TypeStep \/ SizeStep \/ PointerStep
     \/ ExportStep

App == Init /\ [][Next]_vars

\* The state in which signing starts: the stamp images have been chosen and
\* saved (reached from Init by the steps of LibraryStep) and the modal is
\* closed.
InitSigning ==
  /\ devBuild \in BOOLEAN
  /\ isModalOpen = FALSE
  /\ signType = "signature"
  /\ signatureHeight = InitialSignatureHeight
  /\ signatures = <<"s1", "s2">>
  /\ initials = <<"i1">>
  /\ isParsingPdf = FALSE
  /\ signedLocations = <<>>
  /\ canvasArray = <<>>
  /\ isSavingPdf = FALSE
  /\ parsedPdf = NullPdf
  /\ renderInProgressRef = FALSE
  /\ resetQueued = FALSE
  /\ rebase = <<>>
  /\ canvasEls = <<>>
  /\ raster = {}
  /\ clock = 0
  /\ exports = {}
  /\ isSaveTicked = [n \in Variants |-> TRUE]
  /\ db = [n \in Variants |-> IF n = "signatures" THEN <<"s1", "s2">> ELSE <<"i1">>]
  /\ txn = [n \in Variants |-> NoTxn]
  /\ jobs = {}
  /\ lastOp = "other"
  /\ run = NoRun

\* A signing session: uploads, placements of both variants, undo and reset.
Spec ==
  InitSigning /\ [][ChooseStep(PdfFiles) \/ RasterStep \/ StoreStep \/ TypeStep]_vars

\* Signing one document with the variant and size controls.
SpecControls ==
  InitSigning /\
  [][ChooseStep({"a.pdf"}) \/ RasterStep \/ StoreStep \/ TypeStep \/ SizeStep]_vars

\* Choosing and saving the stamp images, from page load.
SpecLibrary == Init /\ [][LibraryStep]_vars

\* Uploads, placements and exports.
SpecExport ==
  InitSigning /\
  [][ChooseStep({"a.pdf", "b.pdf"}) \/ RasterStep \/ AppendStep \/ ExportStep]_vars

\* The same, where the timer fires and every call of the PDF library returns
\* (by success or by raising an error).
SpecExportFair == SpecExport /\ WF_vars(ExportProgress)

\* Uploads and upload attempts while the user places stamps.  pdf.js and the
\* browser finish the work they were given, and React renders the updates it
\* has queued.
SpecUpload ==
  /\ InitSigning
  /\ [][ChooseStep(PdfFiles) \/ AttemptStep \/ RasterStep \/ AppendStep]_vars
  /\ WF_vars(RasterStep)

\* Signing one upload of a.pdf while the stamp images are chosen again in
\* the modal, for as long as the application is mounted.
ReselectStep ==
  \/ Mounted /\ clock = 0 /\ ChooseStep({"a.pdf"})
  \/ Mounted /\ RasterStep
  \/ Mounted /\ AppendStep
  \/ Mounted /\ TypeStep
  \/ Mounted /\ LibraryStep

SpecReselect == InitSigning /\ [][ReselectStep]_vars

\* Signing the two pages of one upload of b.pdf with the pointer moving over
\* the pages.
FirstUpload == clock = 0 /\ ChooseStep({"b.pdf"})

SpecPointer ==
  InitSigning /\
  [][FirstUpload \/ RasterStep \/ StoreStep \/ TypeStep \/ PointerStep]_vars

\* A return visit: the page loads with images saved by an earlier visit in
\* both object stores, and the mount effect of each section has started.
InitReturning ==
  /\ devBuild \in BOOLEAN
  /\ isModalOpen = TRUE
  /\ signType = "signature"
  /\ signatureHeight = InitialSignatureHeight
  /\ signatures = <<>>
  /\ initials = <<>>
  /\ isParsingPdf = FALSE
  /\ signedLocations = <<>>
  /\ canvasArray = <<>>
  /\ isSavingPdf = FALSE
  /\ parsedPdf = NullPdf
  /\ renderInProgressRef = FALSE
  /\ resetQueued = FALSE
  /\ rebase = <<>>
  /\ canvasEls = <<>>
  /\ raster = {}
  /\ clock = 0
  /\ exports = {}
  /\ isSaveTicked = [n \in Variants |-> TRUE]
  /\ db = [n \in Variants |-> SavedAtLoad(n)]
  /\ txn = [n \in Variants |-> NoTxn]
  /\ jobs = StartupLoads
  /\ lastOp = "other"
  /\ run = NoRun

\* The starter modal on a return visit, until it is closed: the startup
\* loads race with the user's selections (the save boxes stay ticked).
StartupStep ==
  \/ LoadStep
  \/ \E n \in Variants : \E files \in Choices(n) : SelectFiles(n, files)
  \/ \E j \in jobs : TxnBegin(j)
  \/ \E j \in jobs : TxnAdd(j)
  \/ \E j \in jobs : TxnCommit(j)
  \/ \E j \in jobs : TxnAbort(j)
  \/ \E j \in jobs : \E order \in Shuffles(j.files) : ImagesDecoded(j, order)
  \/ CloseModal

SpecStartup == InitReturning /\ [][StartupStep]_vars

\* ---------------------------------------------------------- properties
\* The library of a variant, and whether a library holds an image that was
\* in the store at page load.
LibraryNamed(name) == IF name = "signatures" THEN signatures ELSE initials
HoldsSavedAtLoad(lib, name) ==
  \E a \in 1..Len(lib) : \E b \in 1..Len(SavedAtLoad(name)) :
    lib[a] = SavedAtLoad(name)[b]

\* The stamp library of a placement's variant.
LibraryOf(loc) == IF loc.type = "signature" THEN signatures ELSE initials

\* The 0-based rank of entry k of the placement list among the entries of
\* its variant, and its 1-based position among the entries of its page.
RankInVariant(k) ==
  CountOfType(SubSeq(signedLocations, 1, k - 1), signedLocations[k].type)
PositionOnPage(k) ==
  Len(PageLocations(SubSeq(signedLocations, 1, k - 1),
                    signedLocations[k].pageIndex)) + 1

\* C1: for each variant whose library holds K >= 1 stamp images, the n-th
\* placement of that variant in the placement list (0-indexed, in log order)
\* is drawn on its page's canvas with library image number n mod K.
C1_RoundRobin ==
  \A k \in 1..Len(signedLocations) :
    LET loc == signedLocations[k]
        K == Len(LibraryOf(loc))
    IN  (K >= 1 /\ loc.pageIndex \in Pages) =>
          canvasEls[loc.pageIndex + 1].content.stamps[PositionOnPage(k)].img
            = LibraryOf(loc)[(RankInVariant(k) % K) + 1]

\* C2: starting from an empty placement list, N appends followed by N undos
\* leave the list empty, and s.slice(0, -1) of the empty list is empty.
C2_AppendsThenUndos ==
  /\ run.undos <= run.appends
  /\ (run.appends > 0 /\ run.undos = run.appends) => signedLocations = <<>>
  /\ SliceOffLast(<<>>) = <<>>

C2_Witness ==
  /\ run.appends = 2
  /\ run.undos = 2
  /\ signedLocations = <<>>

\* C3: with a document loaded, reset leaves the placement list empty
\* (the rendered list and the list a queued update will render).
C3_ResetEmpties ==
  lastOp = "reset" => (DocLoaded /\ signedLocations = <<>> /\ rebase = <<>>)

C3_Witness ==
  /\ lastOp = "reset"
  /\ DocLoaded
  /\ signedLocations = <<>>

\* C4: once the document of a finished rasterization is current and the
\* update queued by App's effect has been rendered (which always happens),
\* no placement appended before the document became current is in the list.
C4_LoadDiscards ==
  /\ []((DocLoaded /\ ~resetQueued) =>
          \A k \in 1..Len(signedLocations) :
            signedLocations[k].atDoc = parsedPdf.parsedAtStr)
  /\ (resetQueued ~> ~resetQueued)

C4_Witness ==
  /\ lastOp = "discard"
  /\ parsedPdf.parsedAtStr = 2
  /\ Len(parsedPdf.images) = 2
  /\ signedLocations = <<>>

\* C5: a rasterization request made while another is in flight is dropped:
\* at most one rasterization is ever in flight and the input stays disabled
\* for as long as it is, the attempt changes nothing of the in-flight one,
\* every published document consists of exactly the pages of the request
\* that was in flight, and an in-flight request for a file pdf.js can parse
\* eventually publishes that file as the next document.
C5_SecondRequestDropped ==
  /\ [](/\ Cardinality(raster) <= 1
        /\ raster # {} => (isParsingPdf /\ renderInProgressRef))
  /\ [][lastOp' = "blocked" =>
          UNCHANGED <<raster, parsedPdf, clock, isParsingPdf,
                      renderInProgressRef>>]_vars
  /\ [][parsedPdf' # parsedPdf =>
          \E r \in raster :
            /\ raster' = {}
            /\ parsedPdf'.fileName = r.file
            /\ parsedPdf'.images =
                 [k \in 1..NumPages(r.file) |-> PageImage(r.file, k)]]_vars
  /\ \A f \in PdfFiles : \A c \in 0..MaxUploads :
       (Parseable(f) /\ clock = c /\ \E r \in raster : r.file = f)
         ~> (/\ parsedPdf.fileName = f
             /\ parsedPdf.parsedAtStr = c + 1
             /\ Len(parsedPdf.images) = NumPages(f))

C5_Witness ==
  /\ lastOp = "blocked"
  /\ \E r \in raster : r.file = "b.pdf" /\ r.stage = "rendering"

\* C6: every export of a document with P pages produces an output document
\* of exactly P pages, page i being the image of canvas i with the pixel
\* width and height of that canvas, in order, with no page before them.
C6_ExportMatchesCanvases ==
  [][\A e \in exports :
       ExportRun(e) =>
         \E d \in exports' :
           /\ d.stage = "saving"
           /\ Len(d.pages) = Len(parsedPdf.images)
           /\ \A k \in 1..Len(d.pages) :
                d.pages[k] = [width |-> canvasEls[k].width,
                              height |-> canvasEls[k].height,
                              image |-> canvasEls[k].content]]_vars

\* C7: at most one export is in flight, and while one is, isSavingPdf
\* keeps the export button disabled.
C7_SingleExport ==
  /\ Cardinality(exports) <= 1
  /\ exports # {} => isSavingPdf

C7_Witness ==
  /\ isSavingPdf
  /\ \E e \in exports : e.stage = "saving" /\ Len(e.pages) = 2

\* C8: undo removes exactly the last entry of the placement list: the page
\* of that entry loses its last placement, the placements of every other
\* page and the canvases of the other pages stay as they were.
C8_UndoRemovesLast ==
  [][Undo =>
       LET last == signedLocations[Len(signedLocations)]
           Before(p) == PageLocations(signedLocations, p)
       IN  /\ Len(signedLocations') = Len(signedLocations) - 1
           /\ \A k \in 1..Len(signedLocations') :
                signedLocations'[k] = signedLocations[k]
           /\ \A p \in Pages :
                /\ p = last.pageIndex =>
                     PageLocations(signedLocations', p)
                       = SubSeq(Before(p), 1, Len(Before(p)) - 1)
                /\ p # last.pageIndex =>
                     /\ PageLocations(signedLocations', p) = Before(p)
                     /\ canvasEls'[p + 1] = canvasEls[p + 1]]_vars

C8_Witness ==
  /\ run.appends = 2
  /\ run.undos = 1
  /\ Len(parsedPdf.images) = 2
  /\ Len(signedLocations) = 1
  /\ signedLocations[1].pageIndex = 0
  /\ signedLocations[1].type = "signature"
  /\ Len(canvasEls[1].content.stamps) = 1
  /\ canvasEls[2].content.stamps = <<>>

\* C9: an appended placement carries the slider value and the variant of
\* the moment of the append, and a later change of the slider or of the
\* variant changes no existing placement and nothing drawn for them.
C9_FrozenAtAppend ==
  /\ [][AppendStep =>
          LET new == signedLocations'[Len(signedLocations')]
          IN  /\ new.height = signatureHeight
              /\ new.type = signType
              /\ SubSeq(signedLocations', 1, Len(signedLocations') - 1)
                   = signedLocations]_vars
  /\ [][(signatureHeight' # signatureHeight \/ signType' # signType) =>
          /\ signedLocations' = signedLocations
          /\ rebase' = rebase
          /\ canvasEls' = canvasEls]_vars

C9_Witness ==
  \E k \in 1..Len(signedLocations) :
    /\ signedLocations[k].height # signatureHeight
    /\ signedLocations[k].type # signType
    /\ signedLocations[k].pageIndex \in Pages
    /\ \E j \in 1..Len(canvasEls[1].content.stamps) :
         canvasEls[1].content.stamps[j].height # signatureHeight

\* C10: when a save of the files S of a variant completes, the variant's
\* object store holds exactly S, nothing older (during the transaction it
\* only ever holds entries of S), and the other variant's store is as before.
C10_ReplaceAll ==
  /\ [](\A j \in jobs :
          j.stage = "adding" => txn[j.name].work = SubSeq(j.files, 1, j.added))
  /\ [][\A j \in jobs :
          TxnCommit(j) =>
            /\ db'[j.name] = j.files
            /\ \A n \in Variants \ {j.name} : db'[n] = db[n]]_vars

C10_Witness ==
  /\ lastOp = "replaced"
  /\ db["signatures"] = <<"s1">>
  /\ db["initials"] = <<"i1">>

\* C11: when the uploaded bytes are not a PDF pdf.js can parse, the request
\* ends without publishing anything: the step that ends it leaves the
\* current document and the placement list as they were, and no document
\* of an unparseable file is ever current.
C11_UnparseableRejected ==
  /\ [](parsedPdf.fileName # "bad.pdf")
  /\ [][lastOp' = "rasterFailed" =>
          /\ \E r \in raster : r.file = "bad.pdf" /\ raster' = raster \ {r}
          /\ UNCHANGED <<parsedPdf, clock, signedLocations, rebase,
                         canvasEls, canvasArray>>]_vars

C11_Witness ==
  /\ lastOp = "rasterFailed"
  /\ raster = {}
  /\ parsedPdf.fileName = "a.pdf"
  /\ Len(signedLocations) = 2

\* C12: during one rasterization the pages are rendered one at a time, in
\* page order: no two page renders of a document are in flight together,
\* and the pages finished so far are the first pages of the document.
C12_PagesSequential ==
  \A r \in raster :
    /\ Cardinality(PagesInFlight(r)) <= 1
    /\ r.done = 1..Cardinality(r.done)

\* C13: whenever a document with P pages is current (its mount effects have
\* run), canvasArray holds exactly P registered surfaces, entry i being the
\* mounted canvas of page i, sized to the raster of page i.
C13_SurfacesRegistered ==
  DocLoaded =>
    /\ Len(canvasArray) = Len(parsedPdf.images)
    /\ Len(canvasEls) = Len(parsedPdf.images)
    /\ \A k \in 1..Len(parsedPdf.images) :
         /\ canvasArray[k] # Undefined
         /\ canvasArray[k] = k
         /\ canvasEls[k].width = parsedPdf.images[k].width
         /\ canvasEls[k].height = parsedPdf.images[k].height

\* C14: the rasterization-in-progress flag is set exactly while a
\* rasterization is in flight; once it has ended, by publishing or by
\* failing, the flag is clear and the input takes the next upload.
C14_FlagOnlyInFlight ==
  /\ renderInProgressRef <=> raster # {}
  /\ raster = {} => (InputEnabled /\ RequestAccepted)

\* C15: an export that meets an empty document or an expected page whose
\* canvas reference is absent returns early as a no-op: it raises no error
\* and leaves the in-flight flags, the placement list and the canvases
\* unchanged.
C15_AbsentCanvasIsNoOp ==
  [][\A e \in exports :
       (/\ ExportRun(e)
        /\ \/ Len(canvasArray) = 0
           \/ \E k \in 1..Len(canvasArray) : canvasArray[k] = Undefined)
       => /\ lastOp' # "exportThrew"
          /\ UNCHANGED <<isSavingPdf, isParsingPdf, renderInProgressRef,
                         signedLocations, canvasEls>>]_vars

\* C16: in every reachable state the variantIndex i of each placement in
\* the list is the number of placements of the same variant before it.
C16_IndexIsRank ==
  \A k \in 1..Len(signedLocations) : signedLocations[k].i = RankInVariant(k)

\* C17: whenever a page is painted, the stamp library of the variant of
\* every placement drawn is non-empty, so every stamp drawn is an image of
\* its library.
C17_StampFound ==
  \A k \in 1..Len(canvasEls) :
    \A j \in 1..Len(canvasEls[k].content.stamps) :
      canvasEls[k].content.stamps[j].img # "undefined"

\* The stamp a paint should show for a placement, and the stamps a paint of
\* page p without preview should show for a placement list.
ExpectedStamp(loc, sigs, inits) ==
  LET lib == IF loc.type = "signature" THEN sigs ELSE inits
  IN  [img |-> lib[(loc.i % Len(lib)) + 1],
       x |-> loc.x, y |-> loc.y, height |-> loc.height]

ExpectedStamps(locs, p, sigs, inits) ==
  [j \in 1..Len(PageLocations(locs, p)) |->
     ExpectedStamp(PageLocations(locs, p)[j], sigs, inits)]

\* C18: what a page p shows is the base raster of page p, then the committed
\* placements of page p in list order, then at most one preview placement,
\* last; no placement of another page is on it.
C18_PaintOrder ==
  \A p \in Pages :
    LET shown == canvasEls[p + 1].content
        committed == ExpectedStamps(signedLocations, p, signatures, initials)
    IN  /\ shown.base = parsedPdf.images[p + 1].src
        /\ \/ shown.stamps = committed
           \/ \E pt \in Points :
                shown.stamps =
                  Append(committed,
                         ExpectedStamp([x |-> pt, y |-> pt, type |-> signType,
                                        i |-> CountOfType(signedLocations, signType),
                                        height |-> signatureHeight],
                                       signatures, initials))

C18_Witness ==
  /\ Len(parsedPdf.images) = 2
  /\ Len(PageLocations(signedLocations, 0)) = 2
  /\ Len(PageLocations(signedLocations, 1)) = 1
  /\ signedLocations[2].pageIndex = 1
  /\ Len(canvasEls[1].content.stamps) = 3
  /\ Len(canvasEls[2].content.stamps) = 1

\* C19: after every change of the placement list the content of each canvas
\* is the paint of its page raster with exactly the current placements of
\* its page, whatever it showed before (a preview included); a page without
\* placements shows exactly its base raster.
C19_SurfaceIsDerived ==
  [][signedLocations' # signedLocations =>
       \A p \in 0..(Len(parsedPdf'.images) - 1) :
         canvasEls'[p + 1].content =
           [base |-> parsedPdf'.images[p + 1].src,
            stamps |-> ExpectedStamps(signedLocations', p, signatures', initials')]]_vars

C19_Witness ==
  /\ run.appends = 2
  /\ run.undos = 1
  /\ Len(parsedPdf.images) = 2
  /\ signedLocations[1].pageIndex = 1
  /\ canvasEls[1].content = [base |-> parsedPdf.images[1].src, stamps |-> <<>>]
  /\ Len(canvasEls[2].content.stamps) = 1

\* C20: pointer-move and pointer-leave never change the placement list, and
\* the preview painted by a pointer-move at a point is the stamp (variant,
\* variantIndex and so image, height) of the placement a pointer-up at that
\* point in the same state would append.
C20_PreviewMatchesAppend ==
  /\ [][PointerStep => UNCHANGED <<signedLocations, rebase, resetQueued>>]_vars
  /\ [][\A index \in Pages : \A pt \in Points :
          MouseMove(index, pt) =>
            LET shown == canvasEls'[index + 1].content.stamps
                new == NewLocation(index, pt)
            IN  /\ Len(shown) = Len(PageLocations(signedLocations, index)) + 1
                /\ shown[Len(shown)] = ExpectedStamp(new, signatures, initials)
                /\ PreviewLocation(index, pt).type = new.type
                /\ PreviewLocation(index, pt).i = new.i
                /\ PreviewLocation(index, pt).height = new.height]_vars

C20_Witness ==
  /\ signType = "initial"
  /\ Len(signedLocations) = 2
  /\ signedLocations[1].type = "signature"
  /\ signedLocations[2].type = "initial"
  /\ Len(canvasEls[1].content.stamps)
       = Len(PageLocations(signedLocations, 0)) + 1

\* C21: a rasterization publishes only when the tasks of all P pages of its
\* file have settled, and the document it publishes has exactly P images
\* where image i (counted from 0) is the raster of page i + 1, with that
\* page's size, in whatever order the page tasks settled; the same holds of
\* the document on display in every state.
C21_ImagesInPageOrder ==
  /\ [][parsedPdf' # parsedPdf =>
          \E r \in raster :
            /\ Len(r.order) = NumPages(r.file)
            /\ {r.order[n] : n \in 1..Len(r.order)} = 1..NumPages(r.file)
            /\ Len(parsedPdf'.images) = NumPages(r.file)
            /\ \A i \in 0..(NumPages(r.file) - 1) :
                 /\ parsedPdf'.images[i + 1].src = <<r.file, i + 1>>
                 /\ parsedPdf'.images[i + 1].width = PageWidth(r.file, i + 1)
                 /\ parsedPdf'.images[i + 1].height = PageHeight(r.file, i + 1)]_vars
  /\ [](/\ Len(parsedPdf.images) = NumPages(parsedPdf.fileName)
        /\ \A i \in 0..(Len(parsedPdf.images) - 1) :
             parsedPdf.images[i + 1].src = <<parsedPdf.fileName, i + 1>>)

C21_Witness ==
  /\ lastOp = "publishedReordered"
  /\ parsedPdf.fileName = "b.pdf"
  /\ Len(parsedPdf.images) = 2
  /\ parsedPdf.images[1].src = <<"b.pdf", 1>>
  /\ parsedPdf.images[2].src = <<"b.pdf", 2>>

\* C22: once a (non-empty) selection of the user has been applied to a
\* variant's library, no later step puts the images that were saved at page
\* load into that library: in particular a startup load that finishes after
\* the selection was applied does not overwrite it.
C22_SelectionNotOverwritten ==
  [][\A n \in Variants :
       (LibraryNamed(n) # <<>> /\ ~HoldsSavedAtLoad(LibraryNamed(n), n))
         => ~HoldsSavedAtLoad(LibraryNamed(n)', n)]_vars

\* C23: the export-in-progress flag is set only while an export is in
\* flight, and whenever it is set the export eventually ends with the flag
\* cleared and the export button enabled again.
C23_ExportFinishes ==
  /\ [](isSavingPdf => exports # {})
  /\ isSavingPdf ~> (~isSavingPdf /\ exports = {} /\ ExportEnabled)

====
